---- MODULE Spec2Model ----
(***************************************************************************)
(* Transcript serialization and its callers, youtube-transcript-generator: *)
(*   src/src/utils/file_handler.py   format_timestamp, save_as_*,          *)
(*                                   save_transcript                       *)
(*   src/src/utils/video_processor.py sanitize_filename                    *)
(*   src/main.py                     process_youtube_url, process_batch    *)
(*                                                                         *)
(* Strings are sequences of one-character strings.  A time is a whole      *)
(* number of microseconds (the resolution of datetime.timedelta), held as  *)
(* [neg, s, u]: the value (neg ? -1 : 1) * (s + u / 10^6) seconds.         *)
(* A Python float is held exactly as [neg, int, frac]: the value           *)
(* (neg ? -1 : 1) * (int + 0.frac), frac a sequence of binary digits, of   *)
(* at most 53 significant binary digits in all (IEEE-754 binary64).        *)
(***************************************************************************)
EXTENDS Integers, Sequences, FiniteSets

VARIABLES
    pc,            \* position of the running operation
    args,          \* arguments and locals of the running operation
    idx,           \* save_transcript: index of the next entry of formats
    output_files,  \* save_transcript: the mapping built, as <<fmt, path>> in insertion order
    fs,            \* the files on disk: path -> content
    dirs,          \* the directories on disk
    warnings,      \* logger.warning calls of save_transcript, in order
    raised,        \* the format whose serializer raised, or "none"
    ret,           \* the value returned by the operation, or NoValue
    stack          \* the frames of the callers of the running operation, innermost first

vars == <<pc, args, idx, output_files, fs, dirs, warnings, raised, ret, stack>>

NoValue == [none |-> TRUE]

(***************************************************************************)
(* Characters and strings                                                  *)
(***************************************************************************)
DigitChars == <<"0", "1", "2", "3", "4", "5", "6", "7", "8", "9">>

\* str(n) for n >= 0
RECURSIVE NatStr(_)
NatStr(n) == IF n < 10 THEN <<DigitChars[n + 1]>>
             ELSE NatStr(n \div 10) \o <<DigitChars[(n % 10) + 1]>>

\* "0" * n
RECURSIVE ZeroChars(_)
ZeroChars(n) == IF n <= 0 THEN <<>> ELSE <<"0">> \o ZeroChars(n - 1)

\* f"{n:0Wd}": the sign, when there is one, counts in the width W
PadInt(n, w) ==
    IF n < 0
    THEN LET d == NatStr(0 - n) IN <<"-">> \o ZeroChars(w - 1 - Len(d)) \o d
    ELSE LET d == NatStr(n) IN ZeroChars(w - Len(d)) \o d

\* the characters str.strip() removes that the model's texts can hold
Whitespace == {" ", "\t", "\n"}

RECURSIVE LStrip(_)
LStrip(s) == IF s # <<>> /\ Head(s) \in Whitespace THEN LStrip(Tail(s)) ELSE s

RECURSIVE RStrip(_)
RStrip(s) == IF s # <<>> /\ s[Len(s)] \in Whitespace
             THEN RStrip(SubSeq(s, 1, Len(s) - 1)) ELSE s

\* str.strip()
Strip(s) == RStrip(LStrip(s))

\* the sequence f, with its elements computed once
AsSeq(f, n) == SubSeq(f, 1, n)

\* str.replace(old, new) for a one-character old
Replace(s, old, new) ==
    AsSeq([k \in 1..Len(s) |-> IF s[k] = old THEN new ELSE s[k]], Len(s))

(***************************************************************************)
(* binary64 arithmetic on [neg, int, frac]                                 *)
(***************************************************************************)
Million == 1000000

\* binary digits kept in a binary64 significand
Precision == 53

\* number of binary digits of n (0 for n = 0)
RECURSIVE BitLen(_)
BitLen(n) == IF n = 0 THEN 0 ELSE 1 + BitLen(n \div 2)

IsZeroBits(b) == \A k \in 1..Len(b) : b[k] = 0

\* position of the first 1 of b, Len(b) + 1 when there is none
FirstOne(b) ==
    IF IsZeroBits(b) THEN Len(b) + 1
    ELSE CHOOSE k \in 1..Len(b) : b[k] = 1 /\ \A j \in 1..(k - 1) : b[j] = 0

\* b + one unit in its last place: [carry, bits]
IncBits(b) ==
    IF \A k \in 1..Len(b) : b[k] = 1
    THEN [carry |-> 1, bits |-> AsSeq([k \in 1..Len(b) |-> 0], Len(b))]
    ELSE LET z == CHOOSE k \in 1..Len(b) :
                      b[k] = 0 /\ \A j \in (k + 1)..Len(b) : b[j] = 1
         IN  [carry |-> 0,
              bits  |-> AsSeq([k \in 1..Len(b) |-> IF k < z THEN b[k]
                                                   ELSE IF k = z THEN 1 ELSE 0],
                              Len(b))]

\* 1 - 0.b for 0.b > 0, exactly
OneMinus(b) == IncBits(AsSeq([k \in 1..Len(b) |-> 1 - b[k]], Len(b))).bits

\* round-half-to-even of int + 0.kept + (guard, sticky) at the last digit of kept
RoundCore(int, kept, guard, sticky) ==
    LET last == IF kept = <<>> THEN int % 2 ELSE kept[Len(kept)]
        up   == guard = 1 /\ (sticky \/ last = 1)
        inc  == IncBits(kept)
    IN  IF ~up THEN [int |-> int, frac |-> kept]
        ELSE [int |-> int + inc.carry, frac |-> inc.bits]

\* number of digits of frac a binary64 of integer part int keeps
KeptLen(int, frac) ==
    IF int > 0 THEN Precision - BitLen(int)
    ELSE FirstOne(frac) - 1 + Precision

\* the binary64 nearest to int + 0.frac
Round53(int, frac) ==
    LET k == KeptLen(int, frac)
    IN  IF Len(frac) <= k THEN [int |-> int, frac |-> frac]
        ELSE RoundCore(int, SubSeq(frac, 1, k), frac[k + 1],
                       ~IsZeroBits(SubSeq(frac, k + 2, Len(frac))))

\* Long arithmetic goes ten binary digits at a time, so that every
\* intermediate value stays below 2^31.
Pow2(n) == 2 ^ n

\* the remainder of r * 2^(10 j) modulo 10^6
RECURSIVE RemAfter(_, _)
RemAfter(r, j) == IF j = 0 THEN r ELSE (RemAfter(r, j - 1) * 1024) % Million

\* the k-th binary digit of r / 10^6, 0 <= r < 10^6, k >= 1
FracBit(r, k) ==
    LET j == (k - 1) \div 10
        c == (RemAfter(r, j) * 1024) \div Million
    IN  (c \div Pow2(9 - ((k - 1) % 10))) % 2

\* what is left of r / 10^6 after its first n binary digits, as a remainder
FracRem(r, n) == (RemAfter(r, n \div 10) * Pow2(n % 10)) % Million

\* the magnitude of microseconds / 10**6 correctly rounded (int true division)
MicrosToFloat(s, u) ==
    IF u = 0 THEN [int |-> s, frac |-> <<>>]
    ELSE LET lead == FirstOne(AsSeq([n \in 1..20 |-> FracBit(u, n)], 20))
             k    == IF s > 0 THEN Precision - BitLen(s) ELSE lead - 1 + Precision
         IN  RoundCore(s, AsSeq([n \in 1..k |-> FracBit(u, n)], k), FracBit(u, k + 1),
                       FracRem(u, k + 1) # 0)

\* the value of binary digits 10 j + 1 .. 10 j + 10 of b (digits past the end are 0)
ChunkVal(b, j) ==
    LET g(n) == IF 10 * j + n <= Len(b) THEN b[10 * j + n] ELSE 0
    IN  g(1) * 512 + g(2) * 256 + g(3) * 128 + g(4) * 64 + g(5) * 32
        + g(6) * 16 + g(7) * 8 + g(8) * 4 + g(9) * 2 + g(10)

NumChunks(b) == (Len(b) + 9) \div 10

\* m times the chunks c[j..], least significant last: [carry, out]
RECURSIVE MulChunks(_, _, _)
MulChunks(c, m, j) ==
    IF j > Len(c) THEN [carry |-> 0, out |-> <<>>]
    ELSE LET rest == MulChunks(c, m, j + 1)
             t    == c[j] * m + rest.carry
         IN  [carry |-> t \div 1024, out |-> <<t % 1024>> \o rest.out]

\* m * 0.b exactly, for an integer 0 <= m <= 1000: [int, frac]
MulBits(b, m) ==
    LET n == NumChunks(b)
        c == AsSeq([j \in 1..n |-> ChunkVal(b, j - 1)], n)
        r == MulChunks(c, m, 1)
    IN  [int  |-> r.carry,
         frac |-> AsSeq([k \in 1..(10 * n) |->
                            (r.out[((k - 1) \div 10) + 1] \div Pow2(9 - ((k - 1) % 10))) % 2],
                        10 * n)]

(***************************************************************************)
(* format_timestamp                                                        *)
(***************************************************************************)
\* timedelta.total_seconds() of timedelta(seconds = t): microseconds / 10**6
total_seconds(t) ==
    LET m == MicrosToFloat(t.s, t.u)
    IN  [neg |-> t.neg /\ (t.s > 0 \/ t.u > 0), int |-> m.int, frac |-> m.frac]

\* float % w for an integer w > 0: fmod, then + w when the remainder is negative
FloatMod(x, w) ==
    LET r == x.int % w
    IN  IF ~x.neg THEN [neg |-> FALSE, int |-> r, frac |-> x.frac]
        ELSE IF IsZeroBits(x.frac)
             THEN [neg |-> FALSE, int |-> IF r = 0 THEN 0 ELSE w - r, frac |-> <<>>]
             ELSE LET y == Round53(w - r - 1, OneMinus(x.frac))
                  IN  [neg |-> FALSE, int |-> y.int, frac |-> y.frac]

\* int(float // w) for an integer w > 0: the floor of the quotient
FloatFloorDiv(x, w) ==
    IF ~x.neg THEN x.int \div w
    ELSE IF x.int % w = 0 /\ IsZeroBits(x.frac) THEN 0 - (x.int \div w)
         ELSE 0 - (x.int \div w) - 1

\* float * m for a float >= 0 and an integer m > 0, rounded
FloatMul(x, m) ==
    LET p == MulBits(x.frac, m)
        y == Round53(x.int * m + p.int, p.frac)
    IN  [neg |-> FALSE, int |-> y.int, frac |-> y.frac]

\* int(float): truncation toward zero
FloatInt(x) == IF x.neg THEN 0 - x.int ELSE x.int

hours_of(ts)   == FloatFloorDiv(ts, 3600)

\* minutes_of without the "% 3600": the minutes of the whole elapsed time
minutes_of_total(ts) == FloatFloorDiv(ts, 60)

minutes_of(ts) == FloatFloorDiv(FloatMod(ts, 3600), 60)
secs_of(ts)    == FloatInt(FloatMod(ts, 60))
millis_of(ts)  == FloatInt(FloatMul(FloatMod(ts, 1), 1000))

format_timestamp(seconds, format_type) ==
    LET ts  == total_seconds(seconds)
        hms == PadInt(hours_of(ts), 2) \o <<":">> \o PadInt(minutes_of(ts), 2)
               \o <<":">> \o PadInt(secs_of(ts), 2)
    IN  IF format_type = "srt" THEN hms \o <<",">> \o PadInt(millis_of(ts), 3)
        ELSE IF format_type = "vtt" THEN hms \o <<".">> \o PadInt(millis_of(ts), 3)
        ELSE hms

\* f"{x:.2f}": the exact value of the float, rounded half-to-even to 2 decimals
FormatFixed2(x) ==
    LET p     == MulBits(x.frac, 100)
        above == p.frac # <<>> /\ p.frac[1] = 1
        rest  == IF p.frac = <<>> THEN <<>> ELSE Tail(p.frac)
        up    == above /\ (~IsZeroBits(rest) \/ p.int % 2 = 1)
        cents == p.int + (IF up THEN 1 ELSE 0)
        whole == IF cents = 100 THEN x.int + 1 ELSE x.int
    IN  (IF x.neg THEN <<"-">> ELSE <<>>) \o NatStr(whole) \o <<".">>
        \o PadInt(cents % 100, 2)

\* the float a segment's start or end holds: the double nearest to the time
TimeFloat(t) == total_seconds(t)

(***************************************************************************)
(* sanitize_filename                                                       *)
(***************************************************************************)
invalid_chars == <<"<", ">", ":", "\"", "/", "\\", "|", "?", "*">>

\* for char in invalid_chars: filename = filename.replace(char, '_'), from the k-th char on
RECURSIVE SanitizeLoop(_, _)
SanitizeLoop(filename, k) ==
    IF k > Len(invalid_chars) THEN filename
    ELSE SanitizeLoop(Replace(filename, invalid_chars[k], "_"), k + 1)

\* sanitize_filename deleting the invalid characters instead of replacing them
sanitize_by_removal(filename) ==
    LET Valid(c) == \A k \in 1..Len(invalid_chars) : invalid_chars[k] # c
    IN  SelectSeq(filename, Valid)

sanitize_filename(filename) == SanitizeLoop(filename, 1)

(***************************************************************************)
(* Serializers: the content each leaves in the file it opens with 'w'      *)
(***************************************************************************)
Arrow == <<" ", "-", "-", ">", " ">>
NL    == <<"\n">>
TAB   == <<"\t">>

txt_content(result) == Strip(result.text)

\* srt_cue numbering the cue by the segment's own identifier
srt_cue_by_id(i, segment) ==
    LET start == format_timestamp(segment.start, "srt")
        end   == format_timestamp(segment.end, "srt")
        text  == Strip(segment.text)
    IN  NatStr(segment.id) \o NL \o start \o Arrow \o end \o NL \o text \o NL \o NL

\* the three writes of one iteration of save_as_srt
srt_cue(i, segment) ==
    LET start == format_timestamp(segment.start, "srt")
        end   == format_timestamp(segment.end, "srt")
        text  == Strip(segment.text)
    IN  NatStr(i) \o NL \o start \o Arrow \o end \o NL \o text \o NL \o NL

\* for i, segment in enumerate(result['segments'], 1), from the i-th on
RECURSIVE srt_loop(_, _)
srt_loop(segments, i) ==
    IF i > Len(segments) THEN <<>>
    ELSE srt_cue(i, segments[i]) \o srt_loop(segments, i + 1)

srt_content(result) == srt_loop(result.segments, 1)

vtt_header == <<"W", "E", "B", "V", "T", "T", "\n", "\n">>

vtt_cue(segment) ==
    LET start == format_timestamp(segment.start, "vtt")
        end   == format_timestamp(segment.end, "vtt")
        text  == Strip(segment.text)
    IN  start \o Arrow \o end \o NL \o text \o NL \o NL

RECURSIVE vtt_loop(_, _)
vtt_loop(segments, i) ==
    IF i > Len(segments) THEN <<>>
    ELSE vtt_cue(segments[i]) \o vtt_loop(segments, i + 1)

\* vtt_content writing the header only when there is a cue to follow it
vtt_content_lazy_header(result) ==
    IF result.segments = <<>> THEN <<>>
    ELSE vtt_header \o vtt_loop(result.segments, 1)

vtt_content(result) == vtt_header \o vtt_loop(result.segments, 1)

tsv_header == <<"s", "t", "a", "r", "t", "\t", "e", "n", "d", "\t", "t", "e", "x", "t", "\n">>

tsv_row(segment) ==
    LET start == TimeFloat(segment.start)
        end   == TimeFloat(segment.end)
        text  == Replace(Strip(segment.text), "\t", " ")
    IN  FormatFixed2(start) \o TAB \o FormatFixed2(end) \o TAB \o text \o NL

RECURSIVE tsv_loop(_, _)
tsv_loop(segments, i) ==
    IF i > Len(segments) THEN <<>>
    ELSE tsv_row(segments[i]) \o tsv_loop(segments, i + 1)

tsv_content(result) == tsv_header \o tsv_loop(result.segments, 1)

\* json.dump(result, ...): the document is held as the value it encodes
json_content(result) == <<[json |-> result]>>

(***************************************************************************)
(* save_transcript                                                         *)
(***************************************************************************)
Txt   == <<"t", "x", "t">>
Srt   == <<"s", "r", "t">>
Vtt   == <<"v", "t", "t">>
Json  == <<"j", "s", "o", "n">>
Tsv   == <<"t", "s", "v">>

\* the keys of the format_handlers dict
format_handlers == {Txt, Srt, Vtt, Json, Tsv}

\* format_handlers[fmt](result, output_path): what the handler leaves in the file
handler_content(fmt, result) ==
    CASE fmt = Txt  -> txt_content(result)
      [] fmt = Srt  -> srt_content(result)
      [] fmt = Vtt  -> vtt_content(result)
      [] fmt = Json -> json_content(result)
      [] fmt = Tsv  -> tsv_content(result)

\* open(path, 'w') ... write: the file is created or replaced
WriteFile(files, path, content) ==
    [q \in (DOMAIN files) \cup {path} |-> IF q = path THEN content ELSE files[q]]

\* d[key] = value on an insertion-ordered dict held as a sequence of <<key, value>>
DictSet(d, key, value) ==
    IF \E k \in 1..Len(d) : d[k][1] = key
    THEN AsSeq([k \in 1..Len(d) |-> IF d[k][1] = key THEN <<key, value>> ELSE d[k]],
               Len(d))
    ELSE Append(d, <<key, value>>)

DictKeys(d) == AsSeq([k \in 1..Len(d) |-> d[k][1]], Len(d))

\* base_filename built from the title as given
base_filename_raw_title(video_id, video_title) == video_id \o <<"_">> \o video_title

\* base_filename = f"{video_id}_{safe_title}"
base_filename(video_id, video_title) ==
    video_id \o <<"_">> \o sanitize_filename(video_title)

\* str(output_dir / f"{base_filename}.{fmt}")
output_path(output_dir, base, fmt) == output_dir \o <<"/">> \o base \o <<".">> \o fmt

\* lines 114-129: the directory is made, the filename base is computed once,
\* the mapping starts empty
SaveTranscriptCall(result, video_id, video_title, output_dir, formats) ==
    /\ pc = "idle"
    /\ args' = [result |-> result, video_id |-> video_id, video_title |-> video_title,
                output_dir |-> output_dir, formats |-> formats,
                base_filename |-> base_filename(video_id, video_title)]
    /\ dirs' = dirs \cup {output_dir}
    /\ output_files' = <<>>
    /\ idx' = 1
    /\ pc' = "loop"
    /\ UNCHANGED <<fs, warnings, raised, ret, stack>>

\* lines 131-135: a recognized format is written and recorded
LoopWrite ==
    /\ pc = "loop"
    /\ idx <= Len(args.formats)
    /\ args.formats[idx] \in format_handlers
    /\ LET fmt  == args.formats[idx]
           path == output_path(args.output_dir, args.base_filename, fmt)
       IN  /\ fs' = WriteFile(fs, path, handler_content(fmt, args.result))
           /\ output_files' = DictSet(output_files, fmt, path)
    /\ idx' = idx + 1
    /\ UNCHANGED <<pc, args, dirs, warnings, raised, ret, stack>>

\* LoopRaise with the path recorded before the handler is called
LoopRaiseRecorded ==
    /\ pc = "loop"
    /\ idx <= Len(args.formats)
    /\ args.formats[idx] \in format_handlers
    /\ LET fmt  == args.formats[idx]
           path == output_path(args.output_dir, args.base_filename, fmt)
       IN  /\ \/ fs' = fs
              \/ fs' = WriteFile(fs, path, <<>>)
           /\ output_files' = DictSet(output_files, fmt, path)
           /\ raised' = fmt
    /\ pc' = "raised"
    /\ UNCHANGED <<args, idx, dirs, warnings, ret, stack>>

\* lines 133-134: the handler raises (an I/O error); nothing catches it.
\* Either open() failed and the file is untouched, or a write failed after
\* open() had created or truncated it.
LoopRaise ==
    /\ pc = "loop"
    /\ idx <= Len(args.formats)
    /\ args.formats[idx] \in format_handlers
    /\ LET fmt  == args.formats[idx]
           path == output_path(args.output_dir, args.base_filename, fmt)
       IN  /\ \/ fs' = fs
              \/ fs' = WriteFile(fs, path, <<>>)
           /\ raised' = fmt
    /\ pc' = "raised"
    /\ UNCHANGED <<args, idx, output_files, dirs, warnings, ret, stack>>

\* LoopSkip looking the unknown format up in format_handlers: KeyError
LoopSkipRaises ==
    /\ pc = "loop"
    /\ idx <= Len(args.formats)
    /\ args.formats[idx] \notin format_handlers
    /\ raised' = args.formats[idx]
    /\ pc' = "raised"
    /\ UNCHANGED <<args, idx, output_files, fs, dirs, warnings, ret, stack>>

\* lines 136-137: an unknown format is logged and skipped
LoopSkip ==
    /\ pc = "loop"
    /\ idx <= Len(args.formats)
    /\ args.formats[idx] \notin format_handlers
    /\ warnings' = Append(warnings, args.formats[idx])
    /\ idx' = idx + 1
    /\ UNCHANGED <<pc, args, output_files, fs, dirs, raised, ret, stack>>

\* line 139
SaveTranscriptReturn ==
    /\ pc = "loop"
    /\ idx > Len(args.formats)
    /\ ret' = output_files
    /\ pc' = "returned"
    /\ UNCHANGED <<args, idx, output_files, fs, dirs, warnings, raised, stack>>

(***************************************************************************)
(* Inputs                                                                  *)
(***************************************************************************)
\* all strings over alphabet of length at most n
StringsUpTo(alphabet, n) == UNION {[1..k -> alphabet] : k \in 0..n}

Time(s, u) == [neg |-> FALSE, s |-> s, u |-> u]

MaxFormats == 3
MaxSegs    == 2
MaxLen     == 3

Bogus == <<"b", "o", "g", "u", "s">>
FormatNames == format_handlers \cup {Bogus}
FormatLists == StringsUpTo(FormatNames, MaxFormats)

\* segment times: 0.0 and 4.35 seconds
SegTimes == {Time(0, 0), Time(4, 350000)}
SegTexts == {<<"H", "i">>, <<" ", "a", "\t", "b", "\n">>, <<"a", "\n", "b">>}
Segments == [id : {5}, start : SegTimes, end : SegTimes, text : SegTexts]

\* the text of a result is the concatenation of its segments' texts
RECURSIVE JoinTexts(_, _)
JoinTexts(segments, i) ==
    IF i > Len(segments) THEN <<>>
    ELSE segments[i].text \o JoinTexts(segments, i + 1)

ResultOf(segments) ==
    [text |-> JoinTexts(segments, 1), segments |-> segments, language |-> "en"]

Results == {ResultOf(segs) : segs \in StringsUpTo(Segments, MaxSegs)}

\* the results passed to save_transcript
CallResults ==
    {ResultOf(<<>>),
     ResultOf(<<[id |-> 0, start |-> Time(0, 0), end |-> Time(1, 500000),
                 text |-> <<" ", "H", "i">>],
                [id |-> 1, start |-> Time(1, 500000), end |-> Time(3, 0),
                 text |-> <<" ", "y", "o", "u">>]>>)}

VideoIds    == {<<"a">>, <<"a", "_", "b">>, <<"a", "b", "c", "1", "2", "3">>}
VideoTitles == {<<"c">>, <<"b", "_", "c">>, <<"M", "y", ":", " ", "V", "i", "d", "e", "o">>}
OutputDirs  == {<<"o", "u", "t">>}

(***************************************************************************)
(* Spec: one save_transcript call                                          *)
(***************************************************************************)
NoFiles == [q \in {} |-> <<>>]

Quiet ==
    /\ idx = 0
    /\ output_files = <<>>
    /\ fs = NoFiles
    /\ dirs = {}
    /\ warnings = <<>>
    /\ raised = NoValue
    /\ ret = NoValue
    /\ stack = <<>>

Init == pc = "idle" /\ args = NoValue /\ Quiet

Next ==
    \/ /\ pc = "idle"
       /\ \E result \in CallResults, video_id \in VideoIds, video_title \in VideoTitles,
             output_dir \in OutputDirs, formats \in FormatLists :
             SaveTranscriptCall(result, video_id, video_title, output_dir, formats)
    \/ LoopWrite
    \/ LoopRaise
    \/ LoopSkip
    \/ SaveTranscriptReturn

Spec == Init /\ [][Next]_vars

(***************************************************************************)
(* SpecSer: one serializer applied to one transcription result             *)
(***************************************************************************)
OutFile == <<"o", "u", "t", "/", "f">>

InitSer ==
    /\ pc = "serialize"
    /\ args \in [result : Results, output_path : {OutFile}]
    /\ Quiet

Saved(content, at) ==
    /\ pc = "serialize"
    /\ fs' = WriteFile(fs, args.output_path, content)
    /\ pc' = at
    /\ UNCHANGED <<args, idx, output_files, dirs, warnings, raised, ret, stack>>

save_as_txt  == Saved(txt_content(args.result), "saved_txt")
save_as_srt  == Saved(srt_content(args.result), "saved_srt")
save_as_vtt  == Saved(vtt_content(args.result), "saved_vtt")
save_as_json == Saved(json_content(args.result), "saved_json")
save_as_tsv  == Saved(tsv_content(args.result), "saved_tsv")

NextSer ==
    \/ save_as_txt
    \/ save_as_srt
    \/ save_as_vtt
    \/ save_as_json
    \/ save_as_tsv

SpecSer == InitSer /\ [][NextSer]_vars

(***************************************************************************)
(* SpecTs: format_timestamp applied to one time and one style tag          *)
(***************************************************************************)
HourSamples   == {0, 1, 99, 100}
MinuteSamples == {0, 1, 59}
SecondSamples == {0, 1, 4, 59}
MilliSamples  == {0, 1, 350, 500, 999}
MicroSamples  == {0, 1, 499, 500, 501, 999}

TsSeconds == {h * 3600 + m * 60 + c :
                 h \in HourSamples, m \in MinuteSamples, c \in SecondSamples}
TsMicros  == {ms * 1000 + r : ms \in MilliSamples, r \in MicroSamples}
TsInputs  == {t \in [neg : BOOLEAN, s : TsSeconds, u : TsMicros] :
                 t.neg => (t.s > 0 \/ t.u > 0)}
Styles    == {"srt", "vtt", "plain", "SRT"}

InitTs ==
    /\ pc = "format_timestamp"
    /\ args \in [seconds : TsInputs, format_type : Styles]
    /\ Quiet

FormatTimestamp ==
    /\ pc = "format_timestamp"
    /\ ret' = format_timestamp(args.seconds, args.format_type)
    /\ pc' = "done"
    /\ UNCHANGED <<args, idx, output_files, fs, dirs, warnings, raised, stack>>

SpecTs == InitTs /\ [][FormatTimestamp]_vars

(***************************************************************************)
(* SpecSan: sanitize_filename applied to one string                        *)
(***************************************************************************)
SanAlphabet == {invalid_chars[k] : k \in 1..Len(invalid_chars)} \cup {"a", "_", " "}
SanInputs   == StringsUpTo(SanAlphabet, MaxLen)
                   \cup {<<"a", "/", "b", ":", "c", "*", "d">>}

InitSan ==
    /\ pc = "sanitize_filename"
    /\ args \in [filename : SanInputs]
    /\ Quiet

SanitizeFilename ==
    /\ pc = "sanitize_filename"
    /\ ret' = sanitize_filename(args.filename)
    /\ pc' = "done"
    /\ UNCHANGED <<args, idx, output_files, fs, dirs, warnings, raised, stack>>

SpecSan == InitSan /\ [][SanitizeFilename]_vars

(***************************************************************************)
(* SpecCon: two save_transcript calls running concurrently.  pc, args,     *)
(* idx, output_files, raised and ret hold one value per caller; the        *)
(* files, the directories and the logger are shared.  A serializer opens   *)
(* its file with mode 'w' (the file is created or truncated) and its       *)
(* buffered text reaches the file when the file is closed, written from    *)
(* the start of the file over whatever the file holds by then.             *)
(***************************************************************************)
Threads == {1, 2}

ConIds     == {<<"a">>, <<"a", "_", "b">>}
ConTitles  == {<<"c">>, <<"b", "_", "c">>}
ConDirs    == OutputDirs \cup {<<"o", "2">>}
ConFormats == {<<Txt>>, <<Txt, Srt>>, <<Bogus, Txt>>}

\* the transcription result each caller passes
ConResult ==
    <<ResultOf(<<[id |-> 0, start |-> Time(0, 0), end |-> Time(1, 500000),
                  text |-> <<" ", "H", "i">>],
                 [id |-> 1, start |-> Time(1, 500000), end |-> Time(3, 0),
                  text |-> <<" ", "y", "o", "u">>]>>),
      ResultOf(<<[id |-> 0, start |-> Time(0, 0), end |-> Time(4, 350000),
                  text |-> <<"O", "k">>]>>)>>

\* the path the caller t is at
ConPath(t) ==
    output_path(args[t].output_dir, args[t].base_filename, args[t].formats[idx[t]])

\* write(2) of content at offset 0 of a file opened without O_APPEND
WriteAtStart(files, path, content) ==
    LET old == IF path \in DOMAIN files THEN files[path] ELSE <<>>
    IN  WriteFile(files, path,
                  IF Len(old) > Len(content)
                  THEN content \o SubSeq(old, Len(content) + 1, Len(old))
                  ELSE content)

InitCon ==
    /\ pc = [t \in Threads |-> "idle"]
    /\ args = [t \in Threads |-> NoValue]
    /\ idx = [t \in Threads |-> 0]
    /\ output_files = [t \in Threads |-> <<>>]
    /\ raised = [t \in Threads |-> NoValue]
    /\ ret = [t \in Threads |-> NoValue]
    /\ fs = NoFiles
    /\ dirs = {}
    /\ warnings = <<>>
    /\ stack = <<>>

\* lines 114-129, by caller t
ConCall(t, video_id, video_title, output_dir, formats) ==
    /\ pc[t] = "idle"
    /\ args' = [args EXCEPT ![t] =
                   [result |-> ConResult[t], video_id |-> video_id,
                    video_title |-> video_title, output_dir |-> output_dir,
                    formats |-> formats,
                    base_filename |-> base_filename(video_id, video_title)]]
    /\ dirs' = dirs \cup {output_dir}
    /\ output_files' = [output_files EXCEPT ![t] = <<>>]
    /\ idx' = [idx EXCEPT ![t] = 1]
    /\ pc' = [pc EXCEPT ![t] = "loop"]
    /\ UNCHANGED <<fs, warnings, raised, ret, stack>>

\* lines 132-134, by caller t: the handler opens its file
ConOpen(t) ==
    /\ pc[t] = "loop"
    /\ idx[t] <= Len(args[t].formats)
    /\ args[t].formats[idx[t]] \in format_handlers
    /\ fs' = WriteFile(fs, ConPath(t), <<>>)
    /\ pc' = [pc EXCEPT ![t] = "writing"]
    /\ UNCHANGED <<args, idx, output_files, dirs, warnings, raised, ret, stack>>

\* lines 134-135, by caller t: the handler's text reaches the file, the file
\* is closed and the path is recorded
ConClose(t) ==
    /\ pc[t] = "writing"
    /\ LET fmt == args[t].formats[idx[t]]
       IN  /\ fs' = WriteAtStart(fs, ConPath(t), handler_content(fmt, args[t].result))
           /\ output_files' = [output_files EXCEPT ![t] = DictSet(@, fmt, ConPath(t))]
    /\ idx' = [idx EXCEPT ![t] = idx[t] + 1]
    /\ pc' = [pc EXCEPT ![t] = "loop"]
    /\ UNCHANGED <<args, dirs, warnings, raised, ret, stack>>

\* lines 133-134, by caller t: open() or the write raises
ConRaise(t) ==
    /\ \/ /\ pc[t] = "loop"
          /\ idx[t] <= Len(args[t].formats)
          /\ args[t].formats[idx[t]] \in format_handlers
       \/ pc[t] = "writing"
    /\ raised' = [raised EXCEPT ![t] = args[t].formats[idx[t]]]
    /\ pc' = [pc EXCEPT ![t] = "raised"]
    /\ UNCHANGED <<args, idx, output_files, fs, dirs, warnings, ret, stack>>

\* lines 136-137, by caller t
ConSkip(t) ==
    /\ pc[t] = "loop"
    /\ idx[t] <= Len(args[t].formats)
    /\ args[t].formats[idx[t]] \notin format_handlers
    /\ warnings' = Append(warnings, args[t].formats[idx[t]])
    /\ idx' = [idx EXCEPT ![t] = idx[t] + 1]
    /\ UNCHANGED <<pc, args, output_files, fs, dirs, raised, ret, stack>>

\* line 139, by caller t
ConReturn(t) ==
    /\ pc[t] = "loop"
    /\ idx[t] > Len(args[t].formats)
    /\ ret' = [ret EXCEPT ![t] = output_files[t]]
    /\ pc' = [pc EXCEPT ![t] = "returned"]
    /\ UNCHANGED <<args, idx, output_files, fs, dirs, warnings, raised, stack>>

NextCon ==
    \E t \in Threads :
        \/ /\ pc[t] = "idle"
           /\ \E video_id \in ConIds, video_title \in ConTitles,
                 output_dir \in ConDirs, formats \in ConFormats :
                 ConCall(t, video_id, video_title, output_dir, formats)
        \/ ConOpen(t)
        \/ ConClose(t)
        \/ ConRaise(t)
        \/ ConSkip(t)
        \/ ConReturn(t)

SpecCon == InitCon /\ [][NextCon]_vars

(***************************************************************************)
(* src/main.py: process_youtube_url and process_batch.                     *)
(* A frame holds the locals assigned so far; NoValue stands for None.      *)
(* logger.info and logger.error calls are not kept; logger.warning calls   *)
(* are appended to warnings.                                               *)
(***************************************************************************)
DOWNLOADS_DIR == <<"d", "l">>
OUTPUTS_DIR   == <<"o", "u", "t">>

UnknownName == <<"u", "n", "k", "n", "o", "w", "n">>
Mp3     == <<"m", "p", "3">>

\* d.get(key, default)
DictGet(d, key, default) == IF key \in DOMAIN d THEN d[key] ELSE default

Urls == {"u1", "u2"}

\* ydl.extract_info(url): the metadata the network gives for a URL
VideoInfoOf(url) ==
    IF url = "u1" THEN [id |-> <<"a">>, title |-> <<"M", "y", ":", " ", "V">>]
    ELSE [id |-> <<"b">>]

\* the audio yt-dlp leaves in the file it downloads for a URL
AudioOf(url) == <<[audio |-> url]>>

\* output_dir / f"{video_id}.{audio_format}"
audio_file(output_dir, video_id, audio_format) ==
    output_dir \o <<"/">> \o video_id \o <<".">> \o audio_format

\* the exception a step raises, and str(e)
Exc(step)    == <<step>>
ErrorText(e) == [message_of |-> e]

\* name = value in a frame
Bind(frame, name, value) ==
    [k \in (DOMAIN frame) \cup {name} |-> IF k = name THEN value ELSE frame[k]]

\* lines 97-102: the frame of a process_youtube_url call
UrlFrame(url, output_formats, keep_audio) ==
    [fn |-> "process_youtube_url", url |-> url, output_formats |-> output_formats,
     keep_audio |-> keep_audio]

\* a caller outside the module calls process_youtube_url
ProcessYoutubeUrlCall(url, output_formats, keep_audio) ==
    /\ pc = "idle"
    /\ args' = UrlFrame(url, output_formats, keep_audio)
    /\ pc' = "get_video_info"
    /\ UNCHANGED <<idx, output_files, fs, dirs, warnings, raised, ret, stack>>

\* lines 116-118
GetVideoInfo ==
    /\ pc = "get_video_info"
    /\ LET video_info == VideoInfoOf(args.url)
       IN  args' = Bind(Bind(args, "video_id", DictGet(video_info, "id", UnknownName)),
                        "video_title", DictGet(video_info, "title", UnknownName))
    /\ pc' = "download_audio"
    /\ UNCHANGED <<idx, output_files, fs, dirs, warnings, raised, ret, stack>>

\* line 116: get_video_info raises (no network, no such video)
GetVideoInfoRaises ==
    /\ pc = "get_video_info"
    /\ raised' = Exc("get_video_info")
    /\ pc' = "except"
    /\ UNCHANGED <<args, idx, output_files, fs, dirs, warnings, ret, stack>>

\* line 123: download_audio makes the directory, downloads and converts the
\* audio and returns output_dir/{id}.mp3
DownloadAudio ==
    /\ pc = "download_audio"
    /\ LET info       == VideoInfoOf(args.url)
           audio_path == audio_file(DOWNLOADS_DIR, info.id, Mp3)
       IN  /\ fs' = WriteFile(fs, audio_path, AudioOf(args.url))
           /\ args' = Bind(args, "audio_path", audio_path)
    /\ dirs' = dirs \cup {DOWNLOADS_DIR}
    /\ pc' = "transcribe_audio"
    /\ UNCHANGED <<idx, output_files, warnings, raised, ret, stack>>

\* line 123: download_audio raises
DownloadAudioRaises ==
    /\ pc = "download_audio"
    /\ dirs' = dirs \cup {DOWNLOADS_DIR}
    /\ raised' = Exc("download_audio")
    /\ pc' = "except"
    /\ UNCHANGED <<args, idx, output_files, fs, warnings, ret, stack>>

\* line 126: the model transcribes the audio file
TranscribeAudio(result) ==
    /\ pc = "transcribe_audio"
    /\ args.audio_path \in DOMAIN fs
    /\ args' = Bind(args, "result", result)
    /\ pc' = "save_transcript"
    /\ UNCHANGED <<idx, output_files, fs, dirs, warnings, raised, ret, stack>>

\* line 126: transcribe_audio raises
TranscribeAudioRaises ==
    /\ pc = "transcribe_audio"
    /\ raised' = Exc("transcribe_audio")
    /\ pc' = "except"
    /\ UNCHANGED <<args, idx, output_files, fs, dirs, warnings, ret, stack>>

\* lines 129-135: save_transcript is called (its lines 114-129 run); the
\* frame of process_youtube_url waits on the stack
CallSaveTranscript ==
    /\ pc = "save_transcript"
    /\ stack' = <<args>> \o stack
    /\ args' = [result |-> args.result, video_id |-> args.video_id,
                video_title |-> args.video_title, output_dir |-> OUTPUTS_DIR,
                formats |-> args.output_formats,
                base_filename |-> base_filename(args.video_id, args.video_title)]
    /\ dirs' = dirs \cup {OUTPUTS_DIR}
    /\ output_files' = <<>>
    /\ idx' = 1
    /\ pc' = "loop"
    /\ UNCHANGED <<fs, warnings, raised, ret>>

\* line 129: save_transcript has returned, its mapping is assigned
SaveTranscriptReturned ==
    /\ pc = "returned"
    /\ stack # <<>>
    /\ args' = Bind(Head(stack), "output_files", ret)
    /\ stack' = Tail(stack)
    /\ ret' = NoValue
    /\ pc' = "cleanup"
    /\ UNCHANGED <<idx, output_files, fs, dirs, warnings, raised>>

\* line 129: save_transcript has raised; the exception reaches the try
SaveTranscriptRaised ==
    /\ pc = "raised"
    /\ stack # <<>>
    /\ args' = Head(stack)
    /\ stack' = Tail(stack)
    /\ pc' = "except"
    /\ UNCHANGED <<idx, output_files, fs, dirs, warnings, raised, ret>>

\* line 138: keep_audio is set, nothing is removed
KeepAudio ==
    /\ pc = "cleanup"
    /\ args.keep_audio
    /\ pc' = "return"
    /\ UNCHANGED <<args, idx, output_files, fs, dirs, warnings, raised, ret, stack>>

\* lines 138-141: os.remove(audio_path)
RemoveAudio ==
    /\ pc = "cleanup"
    /\ ~args.keep_audio
    /\ args.audio_path \in DOMAIN fs
    /\ fs' = [q \in (DOMAIN fs) \ {args.audio_path} |-> fs[q]]
    /\ pc' = "return"
    /\ UNCHANGED <<args, idx, output_files, dirs, warnings, raised, ret, stack>>

\* lines 138-143: os.remove raises; the exception is logged as a warning
RemoveAudioRaises ==
    /\ pc = "cleanup"
    /\ ~args.keep_audio
    /\ warnings' = Append(warnings, Exc("os.remove"))
    /\ pc' = "return"
    /\ UNCHANGED <<args, idx, output_files, fs, dirs, raised, ret, stack>>

\* lines 145-151
ProcessYoutubeUrlReturn ==
    /\ pc = "return"
    /\ ret' = [video_id |-> args.video_id, video_title |-> args.video_title,
               language |-> DictGet(args.result, "language", NoValue),
               output_files |-> args.output_files,
               audio_path |-> IF args.keep_audio THEN args.audio_path ELSE NoValue]
    /\ pc' = "url_returned"
    /\ UNCHANGED <<args, idx, output_files, fs, dirs, warnings, raised, stack>>

\* ProcessYoutubeUrlRaise removing the downloaded audio before it re-raises
ProcessYoutubeUrlRaiseCleaning ==
    /\ pc = "except"
    /\ fs' = IF "audio_path" \in DOMAIN args
             THEN [q \in (DOMAIN fs) \ {args.audio_path} |-> fs[q]]
             ELSE fs
    /\ pc' = "url_raised"
    /\ UNCHANGED <<args, idx, output_files, dirs, warnings, raised, ret, stack>>

\* lines 153-155: the exception is logged and raised again
ProcessYoutubeUrlRaise ==
    /\ pc = "except"
    /\ pc' = "url_raised"
    /\ UNCHANGED <<args, idx, output_files, fs, dirs, warnings, raised, ret, stack>>

\* lines 157-174: the frame of a process_batch call
ProcessBatchCall(urls, output_formats, keep_audio) ==
    /\ pc = "idle"
    /\ args' = [fn |-> "process_batch", urls |-> urls, output_formats |-> output_formats,
                keep_audio |-> keep_audio, results |-> <<>>, i |-> 1]
    /\ pc' = "batch_loop"
    /\ UNCHANGED <<idx, output_files, fs, dirs, warnings, raised, ret, stack>>

\* lines 175-178: the next URL is handed to process_youtube_url
BatchIteration ==
    /\ pc = "batch_loop"
    /\ args.i <= Len(args.urls)
    /\ stack' = <<args>> \o stack
    /\ args' = UrlFrame(args.urls[args.i], args.output_formats, args.keep_audio)
    /\ pc' = "get_video_info"
    /\ UNCHANGED <<idx, output_files, fs, dirs, warnings, raised, ret>>

\* lines 178-179: process_youtube_url has returned
BatchAppendResult ==
    /\ pc = "url_returned"
    /\ stack # <<>>
    /\ args' = [Head(stack) EXCEPT !.results = Append(@, ret), !.i = @ + 1]
    /\ stack' = Tail(stack)
    /\ ret' = NoValue
    /\ pc' = "batch_loop"
    /\ UNCHANGED <<idx, output_files, fs, dirs, warnings, raised>>

\* BatchAppendError leaving the loop after it has recorded the failure
BatchAppendErrorStops ==
    /\ pc = "url_raised"
    /\ stack # <<>>
    /\ args' = [Head(stack) EXCEPT
                   !.results = Append(@, [url |-> args.url, error |-> ErrorText(raised)]),
                   !.i = Len(Head(stack).urls) + 1]
    /\ stack' = Tail(stack)
    /\ raised' = NoValue
    /\ pc' = "batch_loop"
    /\ UNCHANGED <<idx, output_files, fs, dirs, warnings, ret>>

\* lines 180-182: process_youtube_url has raised; the failure is recorded
BatchAppendError ==
    /\ pc = "url_raised"
    /\ stack # <<>>
    /\ args' = [Head(stack) EXCEPT
                   !.results = Append(@, [url |-> args.url, error |-> ErrorText(raised)]),
                   !.i = @ + 1]
    /\ stack' = Tail(stack)
    /\ raised' = NoValue
    /\ pc' = "batch_loop"
    /\ UNCHANGED <<idx, output_files, fs, dirs, warnings, ret>>

\* line 184
ProcessBatchReturn ==
    /\ pc = "batch_loop"
    /\ args.i > Len(args.urls)
    /\ ret' = args.results
    /\ pc' = "batch_returned"
    /\ UNCHANGED <<args, idx, output_files, fs, dirs, warnings, raised, stack>>

(***************************************************************************)
(* SpecUrl: one process_youtube_url call.  SpecBatch: one process_batch    *)
(* call.  config.py has made both directories when main.py is imported.    *)
(***************************************************************************)
MaxUrls == 2

MainFormats == {<<Txt>>, <<Bogus, Srt>>, <<Txt, Srt, Vtt, Json>>}
UrlLists    == StringsUpTo(Urls, MaxUrls)

InitMain ==
    /\ pc = "idle"
    /\ args = NoValue
    /\ idx = 0
    /\ output_files = <<>>
    /\ fs = NoFiles
    /\ dirs = {DOWNLOADS_DIR, OUTPUTS_DIR}
    /\ warnings = <<>>
    /\ raised = NoValue
    /\ ret = NoValue
    /\ stack = <<>>

\* the steps of process_youtube_url, save_transcript's among them
UrlSteps ==
    \/ GetVideoInfo
    \/ GetVideoInfoRaises
    \/ DownloadAudio
    \/ DownloadAudioRaises
    \/ \E result \in CallResults : TranscribeAudio(result)
    \/ TranscribeAudioRaises
    \/ CallSaveTranscript
    \/ LoopWrite
    \/ LoopRaise
    \/ LoopSkip
    \/ SaveTranscriptReturn
    \/ SaveTranscriptReturned
    \/ SaveTranscriptRaised
    \/ KeepAudio
    \/ RemoveAudio
    \/ RemoveAudioRaises
    \/ ProcessYoutubeUrlReturn
    \/ ProcessYoutubeUrlRaise

NextUrl ==
    \/ /\ pc = "idle"
       /\ \E url \in Urls, output_formats \in MainFormats, keep_audio \in BOOLEAN :
             ProcessYoutubeUrlCall(url, output_formats, keep_audio)
    \/ UrlSteps

SpecUrl == InitMain /\ [][NextUrl]_vars

NextBatch ==
    \/ /\ pc = "idle"
       /\ \E urls \in UrlLists, output_formats \in MainFormats, keep_audio \in BOOLEAN :
             ProcessBatchCall(urls, output_formats, keep_audio)
    \/ BatchIteration
    \/ UrlSteps
    \/ BatchAppendResult
    \/ BatchAppendError
    \/ ProcessBatchReturn

SpecBatch == InitMain /\ [][NextBatch]_vars

(***************************************************************************)
(* Claims on format_timestamp (SpecTs)                                     *)
(***************************************************************************)
IsDigit(c) == \E k \in 1..Len(DigitChars) : DigitChars[k] = c

TwoDigits(n) == <<DigitChars[(n \div 10) + 1], DigitChars[(n % 10) + 1]>>
ThreeDigits(n) == <<DigitChars[(n \div 100) + 1]>> \o TwoDigits(n % 100)

\* hours zero-padded to two digits, longer when 100 or more
HourDigits(h) == IF h < 100 THEN TwoDigits(h) ELSE NatStr(h)

\* HH:MM:SS of a whole number of seconds
ClockOf(whole) ==
    HourDigits(whole \div 3600) \o <<":">> \o TwoDigits((whole % 3600) \div 60)
    \o <<":">> \o TwoDigits(whole % 60)

\* the stamp of a whole number ms of milliseconds in a style
StampOfMillis(ms, style) ==
    IF style = "srt" THEN ClockOf(ms \div 1000) \o <<",">> \o ThreeDigits(ms % 1000)
    ELSE IF style = "vtt" THEN ClockOf(ms \div 1000) \o <<".">> \o ThreeDigits(ms % 1000)
    ELSE ClockOf(ms \div 1000)

TsDone == pc = "done" /\ "seconds" \in DOMAIN args

\* C3: for a non-negative input the sub-second part is rounded to the nearest
\* millisecond (59.9995 s counts as 60.000 s) and a rounding that reaches
\* 1000 ms carries into the seconds, minutes and hours, so no field overflows.
C3_RoundsToNearestMillisecond ==
    (TsDone /\ ~args.seconds.neg) =>
        ret = StampOfMillis(args.seconds.s * 1000 + ((args.seconds.u + 500) \div 1000),
                            args.format_type)

\* C4: a negative input is formatted as 0 is.
C4_NegativeIsZero ==
    (TsDone /\ args.seconds.neg) => ret = StampOfMillis(0, args.format_type)

Forbidden == {"<", ">", ":", "\"", "/", "\\", "|", "?", "*"}

SanDone == pc = "done" /\ "filename" \in DOMAIN args

\* C9: sanitize_filename returns, for every string, a string of the same
\* length with each of < > : " / \ | ? * replaced by '_' and every other
\* character unchanged at its position; the output holds none of the nine
\* characters and sanitizing it again changes nothing.
C9_SanitizeTotalIdempotent ==
    SanDone =>
        /\ Len(ret) = Len(args.filename)
        /\ \A k \in 1..Len(args.filename) :
               ret[k] = IF args.filename[k] \in Forbidden THEN "_" ELSE args.filename[k]
        /\ \A k \in 1..Len(ret) : ret[k] \notin Forbidden
        /\ sanitize_filename(ret) = ret

\* C9 witness: 'a/b:c*d' has been sanitized to 'a_b_c_d'
C9_Witness ==
    /\ SanDone
    /\ args.filename = <<"a", "/", "b", ":", "c", "*", "d">>
    /\ ret = <<"a", "_", "b", "_", "c", "_", "d">>

(***************************************************************************)
(* Claims on save_transcript (Spec)                                        *)
(***************************************************************************)
KnownFormats == {<<"t", "x", "t">>, <<"s", "r", "t">>, <<"v", "t", "t">>,
                 <<"j", "s", "o", "n">>, <<"t", "s", "v">>}

\* the recognized names of formats[1..n], each once, in the order first requested
RECURSIVE RecognizedInOrder(_, _)
RecognizedInOrder(formats, n) ==
    IF n = 0 THEN <<>>
    ELSE LET before == RecognizedInOrder(formats, n - 1)
             f      == formats[n]
         IN  IF f \in KnownFormats /\ \A j \in 1..(n - 1) : formats[j] # f
             THEN Append(before, f) ELSE before

\* the path the claims give the file of format fmt of the running call
ClaimedPath(fmt) ==
    args.output_dir \o <<"/">> \o args.video_id \o <<"_">>
    \o [k \in 1..Len(args.video_title) |->
           IF args.video_title[k] \in Forbidden THEN "_" ELSE args.video_title[k]]
    \o <<".">> \o fmt

\* C1: save_transcript never raises because of an unknown format name; when
\* it returns, every recognized requested name has been written and the keys
\* of the returned mapping are exactly the recognized requested names in the
\* order they were first requested.
C1_UnknownFormatsSkipped ==
    /\ pc = "raised" => raised \in KnownFormats
    /\ pc = "returned" =>
           /\ DictKeys(ret) = RecognizedInOrder(args.formats, Len(args.formats))
           /\ \A k \in 1..Len(args.formats) :
                  args.formats[k] \in KnownFormats =>
                      /\ ClaimedPath(args.formats[k]) \in DOMAIN fs
                      /\ fs[ClaimedPath(args.formats[k])]
                             = handler_content(args.formats[k], args.result)

\* C1 witness: ["txt", "bogus", "srt"] has returned the keys txt, srt
C1_Witness ==
    /\ pc = "returned"
    /\ args.formats = <<Txt, Bogus, Srt>>
    /\ DictKeys(ret) = <<Txt, Srt>>
    /\ warnings = <<Bogus>>

\* C2: within one call every file written and every path of the mapping is
\* output_dir/"{video_id}_{sanitize(video_title)}.{fmt}", the extension being
\* the format name.
C2_OneBaseFilename ==
    pc \in {"loop", "returned", "raised"} =>
        /\ \A q \in DOMAIN fs : \E fmt \in KnownFormats : q = ClaimedPath(fmt)
        /\ \A k \in 1..Len(output_files) :
               output_files[k][2] = ClaimedPath(output_files[k][1])

\* C2 witness: id "abc123", title "My: Video", formats ["srt", "txt"] has
\* written out/abc123_My_ Video.srt and out/abc123_My_ Video.txt
C2_Witness ==
    LET base == <<"o", "u", "t", "/", "a", "b", "c", "1", "2", "3", "_",
                  "M", "y", "_", " ", "V", "i", "d", "e", "o", ".">>
    IN  /\ pc = "returned"
        /\ args.formats = <<Srt, Txt>>
        /\ ret = <<<<Srt, base \o Srt>>, <<Txt, base \o Txt>>>>
        /\ DOMAIN fs = {base \o Srt, base \o Txt}

\* the unknown names of formats[1..n], in order
UnknownOf(formats, n) ==
    LET Unknown(f) == f \notin KnownFormats
    IN  SelectSeq(SubSeq(formats, 1, n), Unknown)

\* what holds when the serializer of the k-th requested format has failed,
\* the files of the formats[j], j < k, with Kept(j) being as written
AbortedAt(k, Kept(_)) ==
    /\ raised = args.formats[k]
    /\ ret = NoValue
    /\ warnings = UnknownOf(args.formats, k - 1)
    /\ \A q \in DOMAIN fs :
           \E j \in 1..k : args.formats[j] \in KnownFormats
                            /\ q = ClaimedPath(args.formats[j])
    /\ \A j \in 1..(k - 1) :
           (args.formats[j] \in KnownFormats /\ Kept(j)) =>
               /\ ClaimedPath(args.formats[j]) \in DOMAIN fs
               /\ fs[ClaimedPath(args.formats[j])]
                      = handler_content(args.formats[j], args.result)

\* C12 as stated: when the serializer of the k-th requested format fails,
\* the error reaches the caller, no format after the k-th is attempted, no
\* mapping is returned and the failing format is not recorded as written,
\* and the file of every recognized format before the k-th is as written.
C12_FilesBeforeFailureKept ==
    pc = "raised" =>
        LET AllKept(j) == TRUE
        IN  /\ AbortedAt(idx, AllKept)
            /\ \A n \in 1..Len(output_files) : output_files[n][1] # raised

\* C12, amended: when the serializer of the k-th requested format fails, the
\* error reaches the caller, no format after the k-th is attempted, no
\* mapping is returned, the failing attempt records nothing (the mapping
\* built holds the recognized formats before the k-th), and the file of
\* every recognized format before the k-th other than the k-th format
\* itself is as written.
C12_AbortsOnFirstFailure ==
    pc = "raised" =>
        LET OthersKept(j) == args.formats[j] # args.formats[idx]
        IN  /\ AbortedAt(idx, OthersKept)
            /\ DictKeys(output_files) = RecognizedInOrder(args.formats, idx - 1)

\* C12 witness: of ["txt", "bogus", "srt"] the srt serializer has failed
\* after txt was written and bogus skipped
C12_Witness ==
    /\ pc = "raised"
    /\ args.formats = <<Txt, Bogus, Srt>>
    /\ raised = Srt
    /\ warnings = <<Bogus>>
    /\ DictKeys(output_files) = <<Txt>>
    /\ ClaimedPath(Txt) \in DOMAIN fs
    /\ fs[ClaimedPath(Txt)] = txt_content(args.result)
    /\ ClaimedPath(Srt) \in DOMAIN fs
    /\ fs[ClaimedPath(Srt)] = <<>>
    /\ ret = NoValue

(***************************************************************************)
(* Claims on the serializers (SpecSer)                                     *)
(***************************************************************************)
Written == fs[args.output_path]
InputSegments == args.result.segments

\* the cue block the claims give the k-th segment of an SRT file
SrtBlock(k, seg) ==
    NatStr(k) \o <<"\n">>
    \o format_timestamp(seg.start, "srt") \o <<" ", "-", "-", ">", " ">>
    \o format_timestamp(seg.end, "srt") \o <<"\n">>
    \o Strip(seg.text) \o <<"\n", "\n">>

\* the cue the claims give a segment of a VTT file
VttBlock(seg) ==
    format_timestamp(seg.start, "vtt") \o <<" ", "-", "-", ">", " ">>
    \o format_timestamp(seg.end, "vtt") \o <<"\n">>
    \o Strip(seg.text) \o <<"\n", "\n">>

\* the total length of blocks[1..k]
RECURSIVE EndOf(_, _)
EndOf(blocks, k) == IF k = 0 THEN 0 ELSE EndOf(blocks, k - 1) + Len(blocks[k])

\* content, from position from + 1 on, is exactly the blocks, in order
IsBlocks(content, from, blocks) ==
    /\ Len(content) = from + EndOf(blocks, Len(blocks))
    /\ \A k \in 1..Len(blocks) :
           SubSeq(content, from + EndOf(blocks, k - 1) + 1, from + EndOf(blocks, k))
               = blocks[k]

\* the number of places of content where piece occurs
Occurrences(content, piece) ==
    Cardinality({q \in 1..(Len(content) - Len(piece) + 1) :
                    SubSeq(content, q, q + Len(piece) - 1) = piece})

\* C6: the SRT file of a result with N segments is N cue blocks, the k-th
\* carrying the index k and the start and end timestamps and trimmed text of
\* the k-th input segment, whatever the order of the timestamps; it holds N
\* timing lines.
C6_SrtBlocksInInputOrder ==
    pc = "saved_srt" =>
        LET n == Len(InputSegments)
        IN  /\ IsBlocks(Written, 0,
                        AsSeq([k \in 1..n |-> SrtBlock(k, InputSegments[k])], n))
            /\ Occurrences(Written, <<" ", "-", "-", ">", " ">>) = n

\* C6 witness: two segments, the first starting after the second, have been
\* written as cues 1 and 2
C6_Witness ==
    /\ pc = "saved_srt"
    /\ Len(InputSegments) = 2
    /\ InputSegments[1].start = Time(4, 350000)
    /\ InputSegments[2].start = Time(0, 0)
    /\ SubSeq(Written, 1, 14)
           = <<"1", "\n", "0", "0", ":", "0", "0", ":", "0", "4", ",", "3", "4", "9">>

\* the positions of the line ends of content, and the line end before position q
LineEnds(content) == {q \in 1..Len(content) : content[q] = "\n"}
LineStart(content, q) ==
    IF \E r \in LineEnds(content) : r < q
    THEN (CHOOSE r \in LineEnds(content) :
             r < q /\ \A r2 \in LineEnds(content) : r2 < q => r2 <= r) + 1
    ELSE 1

\* C7: the TSV file of a result with N segments has exactly N + 1 lines, the
\* header "start\tend\ttext" first, and every line has exactly three
\* tab-separated fields (so no text field holds a tab), whatever characters
\* the segment texts hold.
C7_TsvLineCount ==
    pc = "saved_tsv" =>
        /\ Written # <<>> /\ Written[Len(Written)] = "\n"
        /\ Cardinality(LineEnds(Written)) = Len(InputSegments) + 1
        /\ SubSeq(Written, 1, 15)
               = <<"s", "t", "a", "r", "t", "\t", "e", "n", "d", "\t",
                   "t", "e", "x", "t", "\n">>
        /\ \A q \in LineEnds(Written) :
               Cardinality({r \in LineStart(Written, q)..(q - 1) : Written[r] = "\t"}) = 2

\* C8: the VTT file begins with "WEBVTT\n\n" for every segment count; with no
\* segment it is that header alone, with N segments the header is followed by
\* N cues in input order, each the "start --> end" line in VTT style and the
\* trimmed text, without index lines.
C8_VttHeaderThenCues ==
    pc = "saved_vtt" =>
        LET n == Len(InputSegments)
            header == <<"W", "E", "B", "V", "T", "T", "\n", "\n">>
        IN  /\ Len(Written) >= 8
            /\ SubSeq(Written, 1, 8) = header
            /\ n = 0 => Written = header
            /\ IsBlocks(Written, 8, AsSeq([k \in 1..n |-> VttBlock(InputSegments[k])], n))
            /\ Occurrences(Written, <<" ", "-", "-", ">", " ">>) = n

\* C8 witness: a result without segments has been written as the header alone
C8_Witness ==
    /\ pc = "saved_vtt"
    /\ InputSegments = <<>>
    /\ Written = <<"W", "E", "B", "V", "T", "T", "\n", "\n">>

DigitValue(c) == CHOOSE d \in 0..9 : DigitChars[d + 1] = c

\* stamp a is not later than stamp b (stamps of one style and one length)
NotLater(a, b) ==
    \/ a = b
    \/ \E q \in 1..Len(a) :
           /\ \A r \in 1..(q - 1) : a[r] = b[r]
           /\ IsDigit(a[q]) /\ IsDigit(b[q])
           /\ DigitValue(a[q]) < DigitValue(b[q])

\* the start and end stamps shown by a cue whose timing line begins at from + 1
ShownStart(content, from) == SubSeq(content, from + 1, from + 12)
ShownEnd(content, from)   == SubSeq(content, from + 18, from + 29)

\* C10: in the SRT and VTT files every cue is written and none shows an end
\* timestamp earlier than its start timestamp, also for a segment with
\* end < start.
C10_NegativeDurationClamped ==
    LET n == Len(InputSegments)
        srt == AsSeq([k \in 1..n |-> SrtBlock(k, InputSegments[k])], n)
        vtt == AsSeq([k \in 1..n |-> VttBlock(InputSegments[k])], n)
    IN  /\ pc = "saved_srt" =>
               /\ Len(Written) = EndOf(srt, n)
               /\ \A k \in 1..n :
                      LET from == EndOf(srt, k - 1) + Len(NatStr(k)) + 1
                      IN  NotLater(ShownStart(Written, from), ShownEnd(Written, from))
        /\ pc = "saved_vtt" =>
               /\ Len(Written) = 8 + EndOf(vtt, n)
               /\ \A k \in 1..n :
                      LET from == 8 + EndOf(vtt, k - 1)
                      IN  NotLater(ShownStart(Written, from), ShownEnd(Written, from))

(***************************************************************************)
(* Claims on concurrent save_transcript calls (SpecCon)                    *)
(***************************************************************************)
\* the (video_id, output_dir) pair of caller t
PairOf(t) == <<args[t].video_id, args[t].output_dir>>

\* the paths caller t has written and recorded
RecordedPaths(t) == {output_files[t][k][2] : k \in 1..Len(output_files[t])}

\* C11: two concurrent save_transcript calls whose (video_id, output_dir)
\* pairs differ write disjoint sets of paths, and in no interleaving is a
\* file one call has written overwritten or mixed into by the other; also
\* for id "a", title "b_c" against id "a_b", title "c" in one directory.
C11_DisjointPaths ==
    \A t \in Threads, u \in Threads :
        (t # u /\ pc[t] # "idle" /\ pc[u] # "idle" /\ PairOf(t) # PairOf(u)) =>
            /\ RecordedPaths(t) \cap RecordedPaths(u) = {}
            /\ \A k \in 1..Len(output_files[t]) :
                   fs[output_files[t][k][2]]
                       = handler_content(output_files[t][k][1], args[t].result)

(***************************************************************************)
(* Claims on process_youtube_url (SpecUrl) and process_batch (SpecBatch)   *)
(***************************************************************************)
\* the path the audio of a URL is downloaded to
AudioPathOf(url) ==
    <<"d", "l", "/">> \o (IF url = "u1" THEN <<"a">> ELSE <<"b">>)
    \o <<".", "m", "p", "3">>

\* the frame of the process_batch call
BatchFrame == IF pc \in {"batch_loop", "batch_returned"} THEN args ELSE stack[Len(stack)]

\* rec is the record of a successful processing of url
IsSuccessOf(rec, url, formats, keep_audio) ==
    /\ DOMAIN rec = {"video_id", "video_title", "language", "output_files", "audio_path"}
    /\ rec.video_id = (IF url = "u1" THEN <<"a">> ELSE <<"b">>)
    /\ DictKeys(rec.output_files) = RecognizedInOrder(formats, Len(formats))
    /\ rec.audio_path = IF keep_audio THEN AudioPathOf(url) ELSE NoValue

\* rec is the record of a failed processing of url
IsErrorOf(rec, url) ==
    /\ DOMAIN rec = {"url", "error"}
    /\ rec.url = url
    /\ \E e \in {<<"get_video_info">>, <<"download_audio">>, <<"transcribe_audio">>}
               \cup KnownFormats : rec.error = [message_of |-> e]

\* C13: process_batch returns one entry per URL, in URL order, entry i being
\* the success record of URL i or its {url, error} record; while URL i is
\* processed the entries of the URLs before it are there, whatever failed
\* among them, and no exception is pending once a URL's entry is recorded.
C13_BatchIsolatesFailures ==
    pc # "idle" =>
        LET b == BatchFrame
            n == Len(b.results)
        IN  /\ n = b.i - 1
            /\ n <= Len(b.urls)
            /\ pc \notin {"batch_loop", "batch_returned"} => n < Len(b.urls)
            /\ \A j \in 1..n :
                   \/ IsSuccessOf(b.results[j], b.urls[j], b.output_formats, b.keep_audio)
                   \/ IsErrorOf(b.results[j], b.urls[j])
            /\ pc \in {"batch_loop", "batch_returned"} => raised = NoValue
            /\ pc = "batch_returned" => (ret = b.results /\ Len(ret) = Len(b.urls))

\* C13 witness: of two URLs the first has failed and the second has been
\* processed; both entries are returned
C13_Witness ==
    /\ pc = "batch_returned"
    /\ args.urls = <<"u1", "u2">>
    /\ Len(ret) = 2
    /\ IsErrorOf(ret[1], "u1")
    /\ IsSuccessOf(ret[2], "u2", args.output_formats, args.keep_audio)

\* the frame of the process_youtube_url call
UrlFrameNow == IF pc \in {"loop", "returned", "raised"} THEN Head(stack) ELSE args

\* a transcript file is on disk
SomeTranscriptFile == \E q \in DOMAIN fs : SubSeq(q, 1, 4) = <<"o", "u", "t", "/">>

\* C14: process_youtube_url gets the info, downloads, transcribes, saves and
\* cleans up in this order; the audio file is removed only when keep_audio is
\* false and save_transcript has returned its mapping of all requested
\* formats; when a step fails its exception is raised again and the audio
\* file, if downloaded, is in place; when the removal fails a warning is
\* logged and the call returns its record with audio_path None.
C14_StepOrderAndCleanup ==
    pc # "idle" =>
        LET f          == UrlFrameNow
            audio      == AudioPathOf(f.url)
            informed   == "video_id" \in DOMAIN f
            downloaded == "audio_path" \in DOMAIN f
            transcribed == "result" \in DOMAIN f
            saved      == "output_files" \in DOMAIN f
        IN  /\ downloaded => (informed /\ f.audio_path = audio)
            /\ transcribed => downloaded
            /\ SomeTranscriptFile => transcribed
            /\ saved => /\ transcribed
                        /\ DictKeys(f.output_files)
                               = RecognizedInOrder(f.output_formats, Len(f.output_formats))
            /\ (downloaded /\ audio \notin DOMAIN fs) =>
                   (~f.keep_audio /\ saved /\ pc \in {"return", "url_returned"})
            /\ ~downloaded => audio \notin DOMAIN fs
            /\ pc \in {"except", "url_raised"} =>
                   /\ ret = NoValue
                   /\ ~saved
                   /\ downloaded => audio \in DOMAIN fs
                   /\ raised = (CASE ~informed    -> <<"get_video_info">>
                                  [] ~downloaded  -> <<"download_audio">>
                                  [] ~transcribed -> <<"transcribe_audio">>
                                  [] OTHER        -> raised)
                   /\ transcribed => raised \in KnownFormats
            /\ <<"os.remove">> \in {warnings[k] : k \in 1..Len(warnings)} =>
                   (~f.keep_audio /\ saved /\ pc \in {"return", "url_returned"})
            /\ pc = "url_returned" =>
                   /\ raised = NoValue
                   /\ saved
                   /\ ret.output_files = f.output_files
                   /\ IF f.keep_audio THEN ret.audio_path = audio
                      ELSE ret.audio_path = NoValue
                   /\ f.keep_audio => audio \in DOMAIN fs

\* C14 witness: the removal of the audio file has failed and the call has
\* returned its record, audio_path None, the audio file still on disk
C14_Witness ==
    /\ pc = "url_returned"
    /\ ~args.keep_audio
    /\ warnings = <<<<"os.remove">>>>
    /\ ret.audio_path = NoValue
    /\ DictKeys(ret.output_files) = <<Txt>>
    /\ AudioPathOf(args.url) \in DOMAIN fs

====
